---- MODULE Spec2Model ----
(***************************************************************************)
(* Model of include/ponder/uses/detail/lua.hpp: the marshaling layer that  *)
(* exposes natively typed functions to the Lua stack.                      *)
(*                                                                         *)
(* The Lua C API is modelled by what the Lua 5.3 reference manual says of  *)
(* each call the header makes (lua_tointeger, lua_tonumber, lua_tostring,  *)
(* lua_isuserdata, lua_touserdata, lua_push*, luaL_error).                 *)
(***************************************************************************)
EXTENDS Integers, Sequences, FiniteSets, TLC

\* ------------------------------------------------------------------ bounds
\* width in bits of the engine integer (lua_Integer), scaled down
EngineBits == 4
\* longest native parameter list and longest argument frame of a dispatch
MaxArgs == 2
\* longest policy list handed to the resolver
MaxPolicies == 3
\* registrations, closures and frame length of the registration scenario
MaxFuncs == 2
MaxStack == 2
MaxShimArgs == 1

\* ------------------------------------------------------------ value shapes
\* One record shape for every dynamic slot and every native value:
\*   t    dynamic type of a slot / category of a native value
\*   i    integer payload: integer value, integer part of a float, address
\*        held by a light userdata or by a reference handle, value held by
\*        an owning handle, upvalue of a closure
\*   frac a float with fractional part one half
\*   s    string payload
\*   own  the handle owns a copy (makeCopy) rather than refers (makeRef)
\*   fn   the C function of a closure: the call signature its trampoline was
\*        instantiated for (NoFn: no closure)
NoFn == [params |-> <<>>, ret |-> "none", policies |-> <<>>]

Value(t, i, frac, s, own, fn) ==
    [t |-> t, i |-> i, frac |-> frac, s |-> s, own |-> own, fn |-> fn]

NilSlot == Value("nil", 0, FALSE, "", FALSE, NoFn)
NoneSlot == Value("none", 0, FALSE, "", FALSE, NoFn)
IntSlot(n) == Value("integer", n, FALSE, "", FALSE, NoFn)
NumSlot(n, half) == Value("number", n, half, "", FALSE, NoFn)
StrSlot(str) == Value("string", 0, FALSE, str, FALSE, NoFn)
LightSlot(p) == Value("lightuserdata", p, FALSE, "", FALSE, NoFn)
\* a full userdata block holding a UserObject
UserSlot(own, i) == Value("userdata", i, FALSE, "", own, NoFn)
ClosureSlot(f, up) == Value("function", up, FALSE, "", FALSE, f)

RECURSIVE Pow2(_)
Pow2(n) == IF n = 0 THEN 1 ELSE 2 * Pow2(n - 1)

\* two's-complement value of x in a signed type of the given width
WrapSigned(x, bits) == ((x + Pow2(bits - 1)) % Pow2(bits)) - Pow2(bits - 1)

EngineInts == (0 - Pow2(EngineBits - 1)) .. (Pow2(EngineBits - 1) - 1)

\* native objects (addresses) and the values they can hold
Objects == {1}
ObjValues == {0, 1}

\* ------------------------------------------------- the engine (Lua C API)
\* value at an acceptable index: a position above the top reads as "none"
SlotAt(L, index) == IF index \in 1..Len(L) THEN L[index] ELSE NoneSlot

Digits == <<"0", "1", "2", "3", "4", "5", "6", "7", "8", "9">>

RECURSIVE NatToStr(_)
NatToStr(n) == IF n < 10 THEN Digits[n + 1]
               ELSE NatToStr(n \div 10) \o Digits[(n % 10) + 1]

\* "%d" of an engine integer
IntToStr(n) == IF n < 0 THEN "-" \o NatToStr(0 - n) ELSE NatToStr(n)

\* "%.14g" of a float n or n + 1/2; an integral float gets ".0" appended
FloatToStr(n, half) ==
    IF ~half THEN IntToStr(n) \o ".0"
    ELSE IF n < 0 THEN "-" \o NatToStr(0 - n - 1) \o ".5"
    ELSE NatToStr(n) \o ".5"

\* the string form the engine gives a number slot (luaO_tostring)
NumberToString(slot) ==
    IF slot.t = "integer" THEN IntToStr(slot.i) ELSE FloatToStr(slot.i, slot.frac)

\* the string forms of the engine's numbers
IntStrings == [n \in EngineInts |-> IntToStr(n)]
FloatStrings == [q \in EngineInts \X BOOLEAN |-> FloatToStr(q[1], q[2])]

\* the number a string converts to (luaO_str2num), NilSlot when it is none
StrToNumber(str) ==
    IF \E n \in EngineInts : IntStrings[n] = str
    THEN IntSlot(CHOOSE n \in EngineInts : IntStrings[n] = str)
    ELSE IF \E q \in EngineInts \X BOOLEAN : FloatStrings[q] = str
    THEN LET pr == CHOOSE q \in EngineInts \X BOOLEAN : FloatStrings[q] = str
         IN  NumSlot(pr[1], pr[2])
    ELSE NilSlot

\* lua_tointeger: the integer of an integer slot, of a float with an exact
\* integer value, of a string converting to one of those; 0 for anything else
lua_tointeger(L, index) ==
    LET slot == SlotAt(L, index)
        num == IF slot.t = "string" THEN StrToNumber(slot.s) ELSE slot
    IN  IF num.t = "integer" THEN num.i
        ELSE IF num.t = "number" /\ ~num.frac /\ num.i \in EngineInts THEN num.i
        ELSE 0

\* lua_tonumber: the float of a number, integer or convertible string slot;
\* 0.0 for anything else.  The result is <<integer part, has half>>.
lua_tonumber(L, index) ==
    LET slot == SlotAt(L, index)
        num == IF slot.t = "string" THEN StrToNumber(slot.s) ELSE slot
    IN  IF num.t = "integer" THEN <<num.i, FALSE>>
        ELSE IF num.t = "number" THEN <<num.i, num.frac>>
        ELSE <<0, FALSE>>

\* lua_tostring (lua_tolstring): the string of a string slot; a number slot is
\* converted to a string IN PLACE and that string returned; NULL for anything
\* else.  The result is the pointer and the stack after the call.
lua_tostring(L, index) ==
    LET slot == SlotAt(L, index)
    IN  IF slot.t = "string" THEN [null |-> FALSE, s |-> slot.s, L |-> L]
        ELSE IF slot.t \in {"integer", "number"}
        THEN [null |-> FALSE, s |-> NumberToString(slot),
              L |-> [L EXCEPT ![index] = StrSlot(NumberToString(slot))]]
        ELSE [null |-> TRUE, s |-> "", L |-> L]

\* lua_isuserdata: full or light userdata
lua_isuserdata(L, index) == SlotAt(L, index).t \in {"userdata", "lightuserdata"}

\* lua_touserdata: the block address of a full userdata, the pointer of a light
\* userdata, NULL otherwise.  The result is <<is NULL, the slot pointed into>>.
lua_touserdata(L, index) ==
    LET slot == SlotAt(L, index)
    IN  IF slot.t \in {"userdata", "lightuserdata"} THEN <<FALSE, slot>>
        ELSE <<TRUE, NoneSlot>>

lua_pushinteger(L, n) == Append(L, IntSlot(WrapSigned(n, EngineBits)))
lua_pushnumber(L, n, half) == Append(L, NumSlot(n, half))
lua_pushstring(L, str) == Append(L, StrSlot(str))

\* ------------------------------------------------------- native integers
\* a native integral type: its width, its signedness, or bool
IntType(bits, signed, bool) == [bits |-> bits, signed |-> signed, bool |-> bool]
BoolT == IntType(1, FALSE, TRUE)
\* the native integral type as wide as the engine integer
EngineIntT == IntType(EngineBits, TRUE, FALSE)

IntTypes == {IntType(b, sg, FALSE) : b \in 1..EngineBits, sg \in BOOLEAN} \cup {BoolT}

\* the values representable in T
Range(T) ==
    IF T.bool THEN {0, 1}
    ELSE IF T.signed THEN (0 - Pow2(T.bits - 1)) .. (Pow2(T.bits - 1) - 1)
    ELSE 0 .. (Pow2(T.bits) - 1)

\* implicit conversion of an engine integer x to T
Cast(T, x) ==
    IF T.bool THEN (IF x # 0 THEN 1 ELSE 0)
    ELSE IF T.signed THEN WrapSigned(x, T.bits)
    ELSE x % Pow2(T.bits)

\* ---------------------------------------------------------- value writers
\* every push returns the stack after it and the count it reports
Pushed(L, n) == [L |-> L, n |-> n]

LuaValueWriter_integral_push(L, value) == Pushed(lua_pushinteger(L, value), 1)

LuaValueWriter_floating_push(L, value) ==
    Pushed(lua_pushnumber(L, value.i, value.frac), 1)

LuaValueWriter_string_push(L, value) == Pushed(lua_pushstring(L, value.s), 1)

LuaValueWriter_string_view_push(L, value) == Pushed(lua_pushstring(L, value.s), 1)

\* UserObject::makeCopy: a handle owning a copy of the object's present value
makeCopy(o, m) == UserSlot(TRUE, m[o.i])
\* UserObject::makeRef: a handle referring to the object's storage
makeRef(o, m) == UserSlot(FALSE, o.i)
\* pushUserObject: a new userdata block holding the handle, one result
pushUserObject(L, uobj) == Pushed(Append(L, uobj), 1)

LuaValueWriter_UserObject_push(L, value) == pushUserObject(L, value)

\* LuaValueWriter<R>::push selected by the category of R
LuaValueWriter_push(R, L, value) ==
    CASE R = "Integral" -> LuaValueWriter_integral_push(L, value.i)
      [] R = "FloatingPoint" -> LuaValueWriter_floating_push(L, value)
      [] R = "OwnedString" -> LuaValueWriter_string_push(L, value)
      [] R = "StringView" -> LuaValueWriter_string_view_push(L, value)

\* ---------------------------------------------------------- return policy
\* mutant: the copy returner wraps a reference
CallReturnCopy_value_ByRef(L, R, o, m) ==
    IF R # "UserType" THEN LuaValueWriter_push(R, L, o)
    ELSE LuaValueWriter_UserObject_push(L, makeRef(o, m))

CallReturnCopy_value(L, R, o, m) ==
    IF R # "UserType" THEN LuaValueWriter_push(R, L, o)
    ELSE LuaValueWriter_UserObject_push(L, makeCopy(o, m))

CallReturnInternalRef_value(L, R, o, m) ==
    IF R # "UserType" THEN LuaValueWriter_push(R, L, o)
    ELSE LuaValueWriter_UserObject_push(L, makeRef(o, m))

PolicyTags == {"ReturnCopy", "ReturnInternalRef", "Other"}

\* mutant: only the head of the list is inspected
ChooseCallReturner_HeadOnly(Policies_t, R) ==
    IF Policies_t # <<>> /\ Head(Policies_t) = "ReturnInternalRef"
    THEN [type |-> "CallReturnInternalRef", R |-> R]
    ELSE [type |-> "CallReturnCopy", R |-> R]

\* the returner the policy list selects, by the partial specialisations:
\* ReturnCopy at the head, ReturnInternalRef at the head, the empty list,
\* any other head (recursion on the tail)
RECURSIVE ChooseCallReturner(_, _)
ChooseCallReturner(Policies_t, R) ==
    IF Policies_t = <<>> THEN [type |-> "CallReturnCopy", R |-> R]
    ELSE IF Head(Policies_t) = "ReturnCopy" THEN [type |-> "CallReturnCopy", R |-> R]
    ELSE IF Head(Policies_t) = "ReturnInternalRef"
    THEN [type |-> "CallReturnInternalRef", R |-> R]
    ELSE ChooseCallReturner(Tail(Policies_t), R)

CallReturner_value(CallReturner, L, o, m) ==
    IF CallReturner.type = "CallReturnCopy"
    THEN CallReturnCopy_value(L, CallReturner.R, o, m)
    ELSE CallReturnInternalRef_value(L, CallReturner.R, o, m)

\* ---------------------------------------------------------- value readers
\* a read ends in a native value ("ok"), in luaL_error ("error", which does
\* not return) or in a native crash ("crash": a read through address 0, which
\* faults).  luaL_error is handed the std::size_t index for "%d"; the indices
\* are small, so the number formatted is the index.
Ok(val, L, from) == [outcome |-> "ok", val |-> val, L |-> L, from |-> from, err |-> 0]
Raise(L, index) == [outcome |-> "error", val |-> NoneSlot, L |-> L, from |-> 0, err |-> index]
Crash(L) == [outcome |-> "crash", val |-> NoneSlot, L |-> L, from |-> 0, err |-> 0]

\* mutant: the engine integer passes through a narrower int before P
LuaValueReader_integral_convert_ViaInt(P, L, index) ==
    Ok(Value("Integral", Cast(P, WrapSigned(lua_tointeger(L, index), EngineBits - 1)),
             FALSE, "", FALSE, NoFn), L, index)

LuaValueReader_integral_convert(P, L, index) ==
    Ok(Value("Integral", Cast(P, lua_tointeger(L, index)), FALSE, "", FALSE, NoFn), L, index)

LuaValueReader_floating_convert(L, index) ==
    LET n == lua_tonumber(L, index)
    IN  Ok(Value("FloatingPoint", n[1], n[2], "", FALSE, NoFn), L, index)

\* static_cast<P>(i): no range validation
LuaValueReader_enum_convert(L, index) ==
    LET i == lua_tointeger(L, index)
    IN  Ok(Value("Enum", i, FALSE, "", FALSE, NoFn), L, index)

\* string_view(const char*) measures the string: a NULL pointer is dereferenced
LuaValueReader_string_view_convert(L, index) ==
    LET p == lua_tostring(L, index)
    IN  IF p.null THEN Crash(p.L)
        ELSE Ok(Value("StringView", 0, FALSE, p.s, FALSE, NoFn), p.L, index)

\* the check looks at `index`, the payload is fetched from stack position 1;
\* a NULL payload (position 1 holds no userdata) is dereferenced by ref<T>(),
\* and so is a light userdata's pointer, which addresses no UserObject
LuaValueReader_UserType_convert(L, index) ==
    IF ~lua_isuserdata(L, index) THEN Raise(L, index)
    ELSE LET ud == lua_touserdata(L, 1)
         IN  IF ud[1] \/ ud[2].t # "userdata" THEN Crash(L)
             ELSE Ok(Value("UserType", ud[2].i, FALSE, "", ud[2].own, NoFn), L, 1)

\* LuaValueReader<P>::convert selected by the category of P
LuaValueReader_convert(P, L, index) ==
    CASE P = "Integral" -> LuaValueReader_integral_convert(EngineIntT, L, index)
      [] P = "FloatingPoint" -> LuaValueReader_floating_convert(L, index)
      [] P = "Enum" -> LuaValueReader_enum_convert(L, index)
      [] P = "StringView" -> LuaValueReader_string_view_convert(L, index)
      [] P = "UserType" -> LuaValueReader_UserType_convert(L, index)

\* the binder: 0-based sequence index to stack position
ConvertArgs_convert(P, L, index) == LuaValueReader_convert(P, L, index + 1)

\* ------------------------------------------------------------- dispatcher
\* mutant: the returner's count is dropped and zero results are reported
CallHelper_call_NoCount(FPolicies, R, L, o, m) ==
    LET CallReturner == ChooseCallReturner(FPolicies, R)
    IN  Pushed(CallReturner_value(CallReturner, L, o, m).L, 0)

\* the part of CallHelper::call after func returned o
CallHelper_call(FPolicies, R, L, o, m) ==
    LET CallReturner == ChooseCallReturner(FPolicies, R)
    IN  CallReturner_value(CallReturner, L, o, m)

\* mutant: "return nil" taken literally, a nil is pushed and counted
CallHelper_void_call_PushNil(L) == Pushed(Append(L, NilSlot), 1)

\* the part of CallHelper<void>::call after func returned
CallHelper_void_call(L) == Pushed(L, 0)

\* ------------------------------------------------------------------ state
VARIABLES
    registry,    \* the FunctionCallerImpl objects, by address (1, 2, ...)
    stack,       \* the stack of the lua_State given to pushFunction
    globals,     \* the engine's global table, by name
    mem,         \* the native objects, by address
    pc,          \* "idle", or the position of the dispatch in progress
    frame,       \* the stack of the running C function: slot i is argument i
    self,        \* the pointer recovered from upvalue 1
    tramp,       \* the signature the running trampoline was instantiated for
    conv,        \* per parameter: converted yet, the value, the slot it came from
    calledFn,    \* the native callable invoked by this dispatch ("none": none)
    calledArgs,  \* the arguments it was invoked with
    nresults,    \* the count the trampoline returned to the engine
    errIndex,    \* the argument index cited by luaL_error (0: no error)
    pushedBy,    \* history: the FunctionCaller whose pushFunction filled each slot
    pushes,      \* history: the number of pushFunction calls
    creator,     \* history: the FunctionCaller that built the running closure
    entry,       \* history: the frame as the engine handed it over
    returned,    \* history: the object a UserType call returned, its value then
    codec,       \* a write-then-read of one integral value
    resolver     \* a resolution of one policy list

vars == <<registry, stack, globals, mem, pc, frame, self, tramp, conv, calledFn,
          calledArgs, nresults, errIndex, pushedBy, pushes, creator, entry,
          returned, codec, resolver>>

shimVars == <<registry, stack, globals, pushedBy, pushes>>
callVars == <<pc, frame, self, tramp, conv, calledFn, calledArgs, nresults,
              errIndex, creator, entry, returned>>
probeVars == <<codec, resolver>>

\* ------------------------------------------------------------- input sets
Categories == {"Integral", "FloatingPoint", "Enum", "StringView", "UserType"}
ReturnCategories ==
    {"Void", "Integral", "FloatingPoint", "OwnedString", "StringView", "UserType"}
Names == {"f", "g", "h"}

SeqsUpTo(S, n) == UNION {[1..k -> S] : k \in 0..n}

CallSignature(params, ret, policies) ==
    [params |-> params, ret |-> ret, policies |-> policies]

\* the signatures dispatched: every parameter list, every return category,
\* under the default policy and under the reference policy
DispatchSignatures ==
    {CallSignature(p, r, q) : p \in SeqsUpTo(Categories, MaxArgs),
                              r \in ReturnCategories,
                              q \in {<<>>, <<"ReturnInternalRef">>}}

\* the signatures registered in the registration scenario
ShimSignatures ==
    {CallSignature(<<>>, "Void", <<>>), CallSignature(<<"Integral">>, "UserType", <<>>)}

\* the values a script passes: an integer, a string that is no number, a handle
\* referring to native object 1 and a handle owning a copy.  An argument left
\* out is a frame shorter than the parameter list.
ArgVals == {IntSlot(3), StrSlot("x"), UserSlot(FALSE, 1), UserSlot(TRUE, 0)}

\* what a native callable of the given return category can return
NativeResults(R) ==
    CASE R = "Void" -> {NoneSlot}
      [] R = "Integral" -> {Value("Integral", 5, FALSE, "", FALSE, NoFn)}
      [] R = "FloatingPoint" -> {Value("FloatingPoint", 1, TRUE, "", FALSE, NoFn)}
      [] R = "OwnedString" -> {Value("OwnedString", 0, FALSE, "abc", FALSE, NoFn)}
      [] R = "StringView" -> {Value("StringView", 0, FALSE, "sv", FALSE, NoFn)}
      [] R = "UserType" ->
            {Value("UserType", a, FALSE, "", FALSE, NoFn) : a \in Objects}
      [] OTHER -> {}

\* the argument frames of the two scenarios
ShimFrames == SeqsUpTo(ArgVals, MaxShimArgs)
DispatchFrames == SeqsUpTo(ArgVals, MaxArgs)

NotConverted == [st |-> "todo", v |-> NoneSlot, from |-> 0]
NoReturn == [origin |-> 0, atReturn |-> 0]
CodecOff == [stage |-> "off", T |-> BoolT, v |-> 0, out |-> 0]
ResolverOff == [stage |-> "off", policies |-> <<>>, R |-> "none", type |-> "none"]

\* ------------------------------------------------- registration and shim
\* FunctionCallerImpl(name, function): the name, the trampoline &call of this
\* instantiation (one per signature) and the stored callable
FunctionCallerImpl(name, F, signature) ==
    [m_name |-> name, m_luaFunc |-> signature, m_function |-> F]

lua_pushlightuserdata(L, ptr) == Append(L, LightSlot(ptr))

\* lua_pushcclosure(L, fn, n) for n <= 1: the top n values become the upvalues
lua_pushcclosure(L, fn, n) ==
    IF n = 1 THEN Append(SubSeq(L, 1, Len(L) - 1), ClosureSlot(fn, L[Len(L)].i))
    ELSE Append(L, ClosureSlot(fn, 0))

\* mutant: the upvalue is the first FunctionCaller, not this one
FunctionCaller_pushFunction_FirstInstance(L, this, m_luaFunc) ==
    lua_pushcclosure(lua_pushlightuserdata(L, 1), m_luaFunc, 1)

\* mutant: the closure is created with no upvalue, the pointer stays pushed
FunctionCaller_pushFunction_NoUpvalue(L, this, m_luaFunc) ==
    lua_pushcclosure(lua_pushlightuserdata(L, this), m_luaFunc, 0)

FunctionCaller_pushFunction(L, this, m_luaFunc) ==
    lua_pushcclosure(lua_pushlightuserdata(L, this), m_luaFunc, 1)

CallIdle ==
    /\ pc = "idle" /\ frame = <<>> /\ self = 0 /\ tramp = NoFn /\ conv = <<>>
    /\ calledFn = "none" /\ calledArgs = <<>> /\ nresults = 0 /\ errIndex = 0
    /\ creator = 0 /\ entry = <<>> /\ returned = NoReturn

Init ==
    /\ registry = <<>> /\ stack = <<>> /\ pushedBy = <<>> /\ pushes = 0
    /\ globals = [n \in Names |-> NilSlot]
    /\ mem = [a \in Objects |-> 0]
    /\ CallIdle
    /\ codec = CodecOff /\ resolver = ResolverOff

\* construct a FunctionCallerImpl for a callable of the given signature; the
\* callable is identified by the name it is registered under
Register(name, signature) ==
    /\ pc = "idle"
    /\ Len(registry) < MaxFuncs
    /\ \A a \in DOMAIN registry : registry[a].m_name # name
    /\ registry' = Append(registry, FunctionCallerImpl(name, name, signature))
    /\ UNCHANGED <<stack, globals, pushedBy, pushes, mem>>
    /\ UNCHANGED callVars /\ UNCHANGED probeVars

PushFunction(this) ==
    /\ pc = "idle"
    /\ this \in DOMAIN registry
    /\ Len(stack) < MaxStack
    /\ stack' = FunctionCaller_pushFunction(stack, this, registry[this].m_luaFunc)
    /\ pushedBy' = [k \in DOMAIN stack' |-> IF k \in DOMAIN stack THEN pushedBy[k] ELSE this]
    /\ pushes' = pushes + 1
    /\ UNCHANGED <<registry, globals, mem>>
    /\ UNCHANGED callVars /\ UNCHANGED probeVars

\* ------------------------------------------------------------ one dispatch
\* The engine calls closure k with the given arguments: they are the frame of
\* the trampoline, which recovers self from upvalue 1 (push, read, pop).
FunctionCallerImpl_call(k, args) ==
    /\ pc = "idle"
    /\ k \in DOMAIN stack /\ stack[k].t = "function"
    /\ frame' = args /\ entry' = args
    /\ self' = stack[k].i
    /\ tramp' = stack[k].fn
    /\ creator' = pushedBy[k]
    /\ conv' = [j \in 1..Len(stack[k].fn.params) |-> NotConverted]
    /\ pc' = "args"
    /\ UNCHANGED <<calledFn, calledArgs, nresults, errIndex, returned, mem>>
    /\ UNCHANGED shimVars /\ UNCHANGED probeVars

\* One operand of func(ConvertArgs<A>::convert(L, Is)...) is evaluated; the
\* operands are indeterminately sequenced, so any unconverted one may be next.
\* luaL_error leaves the dispatch through the engine; a crash ends the process.
ConvertArg(j) ==
    /\ pc = "args"
    /\ j \in DOMAIN conv /\ conv[j].st = "todo"
    /\ \E r \in {ConvertArgs_convert(tramp.params[j], frame, j - 1)} :
           /\ frame' = r.L
           /\ conv' = IF r.outcome = "ok"
                      THEN [conv EXCEPT ![j] = [st |-> "ok", v |-> r.val, from |-> r.from]]
                      ELSE conv
           /\ pc' = CASE r.outcome = "ok" -> "args"
                      [] r.outcome = "error" -> "error"
                      [] r.outcome = "crash" -> "crashed"
           /\ errIndex' = r.err
    /\ UNCHANGED <<self, tramp, calledFn, calledArgs, nresults, creator, entry,
                   returned, mem>>
    /\ UNCHANGED shimVars /\ UNCHANGED probeVars

\* every operand is converted: self->m_function is invoked, returns o, and the
\* result is written by the returner (nothing for void)
CallNative(o) ==
    /\ pc = "args"
    /\ \A j \in DOMAIN conv : conv[j].st = "ok"
    /\ self \in DOMAIN registry
    /\ o \in NativeResults(tramp.ret)
    /\ calledFn' = registry[self].m_function
    /\ calledArgs' = [j \in DOMAIN conv |-> conv[j].v]
    /\ \E res \in {IF tramp.ret = "Void" THEN CallHelper_void_call(frame)
                   ELSE CallHelper_call(tramp.policies, tramp.ret, frame, o, mem)} :
           frame' = res.L /\ nresults' = res.n
    /\ returned' = IF tramp.ret = "UserType"
                   THEN [origin |-> o.i, atReturn |-> mem[o.i]] ELSE NoReturn
    /\ pc' = "done"
    /\ UNCHANGED <<self, tramp, conv, errIndex, creator, entry, mem>>
    /\ UNCHANGED shimVars /\ UNCHANGED probeVars

\* native code changes the object a call returned, after the call
Mutate(a, v) ==
    /\ pc = "done"
    /\ returned.origin = a
    /\ v # mem[a]
    /\ mem' = [mem EXCEPT ![a] = v]
    /\ UNCHANGED shimVars /\ UNCHANGED callVars /\ UNCHANGED probeVars

\* the engine takes the results, or unwinds the error, and drops the frame
Return ==
    /\ pc \in {"done", "error"}
    /\ pc' = "idle" /\ frame' = <<>> /\ self' = 0 /\ tramp' = NoFn /\ conv' = <<>>
    /\ calledFn' = "none" /\ calledArgs' = <<>> /\ nresults' = 0 /\ errIndex' = 0
    /\ creator' = 0 /\ entry' = <<>> /\ returned' = NoReturn
    /\ UNCHANGED mem /\ UNCHANGED shimVars /\ UNCHANGED probeVars

\* ------------------------------------- the registration scenario (Spec)
Next ==
    \/ \E name \in Names, signature \in ShimSignatures : Register(name, signature)
    \/ \E this \in DOMAIN registry : PushFunction(this)
    \/ /\ pc = "idle"
       /\ \E k \in DOMAIN stack, args \in ShimFrames : FunctionCallerImpl_call(k, args)
    \/ \E j \in DOMAIN conv : ConvertArg(j)
    \/ \E o \in NativeResults(tramp.ret) : CallNative(o)
    \/ \E a \in Objects, v \in ObjValues : Mutate(a, v)
    \/ Return

Spec == Init /\ [][Next]_vars

\* --------------------------- one dispatch of any signature (SpecDispatch)
\* a function of the signature is registered and its closure pushed
InitDispatch ==
    /\ \E signature \in DispatchSignatures :
          /\ registry = <<FunctionCallerImpl("f", "f", signature)>>
          /\ stack = FunctionCaller_pushFunction(<<>>, 1, signature)
    /\ pushedBy = [k \in DOMAIN stack |-> 1] /\ pushes = 1
    /\ globals = [n \in Names |-> NilSlot]
    /\ mem = [a \in Objects |-> 0]
    /\ CallIdle
    /\ codec = CodecOff /\ resolver = ResolverOff

NextDispatch ==
    \/ /\ pc = "idle"
       /\ \E k \in DOMAIN stack, args \in DispatchFrames : FunctionCallerImpl_call(k, args)
    \/ \E j \in DOMAIN conv : ConvertArg(j)
    \/ \E o \in NativeResults(tramp.ret) : CallNative(o)
    \/ \E a \in Objects, v \in ObjValues : Mutate(a, v)

SpecDispatch == InitDispatch /\ [][NextDispatch]_vars

\* ------------------------------ write-then-read of an integer (SpecCodec)
InitCodec ==
    /\ registry = <<>> /\ stack = <<>> /\ pushedBy = <<>> /\ pushes = 0
    /\ globals = [n \in Names |-> NilSlot]
    /\ mem = [a \in Objects |-> 0]
    /\ CallIdle
    /\ \E T \in IntTypes : \E v \in Range(T) :
          codec = [stage |-> "input", T |-> T, v |-> v, out |-> 0]
    /\ resolver = ResolverOff

CodecWrite ==
    /\ codec.stage = "input"
    /\ frame' = LuaValueWriter_integral_push(frame, codec.v).L
    /\ codec' = [codec EXCEPT !.stage = "pushed"]
    /\ UNCHANGED <<pc, self, tramp, conv, calledFn, calledArgs, nresults, errIndex,
                   creator, entry, returned, mem, resolver>>
    /\ UNCHANGED shimVars

CodecRead ==
    /\ codec.stage = "pushed"
    /\ codec' = [codec EXCEPT
                   !.stage = "read",
                   !.out = LuaValueReader_integral_convert(codec.T, frame, Len(frame)).val.i]
    /\ UNCHANGED <<mem, resolver>> /\ UNCHANGED callVars /\ UNCHANGED shimVars

NextCodec == CodecWrite \/ CodecRead

SpecCodec == InitCodec /\ [][NextCodec]_vars

\* ------------------------------ resolution of a policy list (SpecResolver)
InitResolver ==
    /\ registry = <<>> /\ stack = <<>> /\ pushedBy = <<>> /\ pushes = 0
    /\ globals = [n \in Names |-> NilSlot]
    /\ mem = [a \in Objects |-> 0]
    /\ CallIdle
    /\ codec = CodecOff
    /\ \E q \in SeqsUpTo(PolicyTags, MaxPolicies), R \in ReturnCategories \ {"Void"} :
          resolver = [stage |-> "input", policies |-> q, R |-> R, type |-> "none"]

Resolve ==
    /\ resolver.stage = "input"
    /\ resolver' = [resolver EXCEPT
                      !.stage = "resolved",
                      !.type = ChooseCallReturner(resolver.policies, resolver.R).type]
    /\ UNCHANGED <<mem, codec>> /\ UNCHANGED callVars /\ UNCHANGED shimVars

NextResolver == Resolve

SpecResolver == InitResolver /\ [][NextResolver]_vars

\* ================================================================ claims
Finished == pc \in {"done", "error", "crashed"}

\* the value a script observes through a handle
Observed(h) == IF h.own THEN h.i ELSE mem[h.i]

\* the dynamic type a category expects of its slot
Matches(P, slot) ==
    CASE P \in {"Integral", "Enum"} ->
            \/ slot.t = "integer"
            \/ slot.t = "number" /\ ~slot.frac
            \/ slot.t = "string" /\ StrToNumber(slot.s).t = "integer"
      [] P = "FloatingPoint" ->
            \/ slot.t \in {"integer", "number"}
            \/ slot.t = "string" /\ StrToNumber(slot.s).t # "nil"
      [] P = "StringView" -> slot.t \in {"string", "integer", "number"}
      [] P = "UserType" -> slot.t \in {"userdata", "lightuserdata"}

\* slot k of the frame is what the engine handed over, or the string form of
\* the number handed over where a StringView parameter read it
SlotKept(k) ==
    \/ frame[k] = entry[k]
    \/ /\ k \in DOMAIN tramp.params /\ tramp.params[k] = "StringView"
       /\ entry[k].t \in {"integer", "number"}
       /\ frame[k] = StrSlot(NumberToString(entry[k]))

\* ---- C1: parameter i (0-based) is bound from stack position i+1 and from no
\* other position; a UserType parameter gets the payload held in slot i+1.
C1_EachParamReadsItsOwnSlot ==
    \A j \in DOMAIN conv :
        conv[j].st = "ok" =>
            /\ conv[j].from = j
            /\ tramp.params[j] = "UserType" =>
                  /\ conv[j].v.i = entry[j].i
                  /\ conv[j].v.own = entry[j].own

\* ---- C2: when the slot of a UserType parameter holds no user data, the
\* dispatch raises an error citing that argument's 1-based index and the
\* callable is not invoked; the callable is invoked only after every argument
\* was converted.
C2_UserTypeMismatchRaisesBeforeCall ==
    LET bad == {j \in DOMAIN conv : /\ tramp.params[j] = "UserType"
                                    /\ ~Matches("UserType", SlotAt(entry, j))}
    IN  /\ (Finished /\ bad # {}) =>
               (pc = "error" /\ errIndex \in bad /\ calledFn = "none")
        /\ calledFn # "none" => \A j \in DOMAIN conv : conv[j].st = "ok"

\* ---- C3: for every category, a slot of the wrong dynamic type makes the
\* read raise an error: no crash, no substitute value, no call.
C3_MismatchRaisesError ==
    LET mism == {j \in DOMAIN conv : ~Matches(tramp.params[j], SlotAt(entry, j))}
    IN  /\ \A j \in mism : conv[j].st # "ok"
        /\ (Finished /\ mism # {}) => (pc = "error" /\ calledFn = "none")

\* ---- C4 as stated: a void function that reaches its callable reports zero
\* results and leaves the stack exactly as it was on entry.
C4_VoidLeavesStackUntouched ==
    (pc = "done" /\ tramp.ret = "Void") => (nresults = 0 /\ frame = entry)

\* ---- C4 as amended: a void function that reaches its callable reports zero
\* results and pushes nothing; every slot is as on entry, except that a number
\* read by a StringView parameter has been converted in place to its string.
C4_VoidReportsZeroPushesNothing ==
    (pc = "done" /\ tramp.ret = "Void") =>
        /\ nresults = 0
        /\ Len(frame) = Len(entry)
        /\ \A k \in DOMAIN frame : SlotKept(k)

C4_Witness ==
    /\ pc = "done" /\ tramp.ret = "Void" /\ calledFn # "none"
    /\ Len(entry) = 2 /\ frame[1] # entry[1] /\ frame[2] = entry[2]

\* ---- C5: a closure calls the callable of the registration whose
\* pushFunction built it: the self-pointer recovered from upvalue 1 is that
\* FunctionCaller's address.
C5_ClosureCallsItsOwnCallable ==
    pc # "idle" =>
        /\ self = creator
        /\ calledFn # "none" => calledFn = registry[creator].m_function

C5_Witness ==
    /\ Len(registry) = 2 /\ pushedBy = <<2, 1>>
    /\ creator = 2 /\ calledFn = registry[2].m_function
    /\ calledFn # registry[1].m_function

\* ---- C6: the handle pushed for a UserType return follows the original
\* object exactly under InternalRefReturn (built by makeRef) and keeps the
\* value at return time under CopyReturn (built by makeCopy).
C6_HandleAliasesIffInternalRef ==
    (pc = "done" /\ tramp.ret = "UserType") =>
        LET h == frame[Len(frame)]
            byRef == ChooseCallReturner(tramp.policies, tramp.ret).type
                        = "CallReturnInternalRef"
        IN  /\ h.t = "userdata"
            /\ h.own = ~byRef
            /\ Observed(h) = IF byRef THEN mem[returned.origin] ELSE returned.atReturn

C6_Witness ==
    /\ pc = "done" /\ tramp.ret = "UserType" /\ tramp.policies = <<>>
    /\ mem[returned.origin] # returned.atReturn
    /\ Observed(frame[Len(frame)]) = returned.atReturn

\* ---- C7: an integral value written by the Integral writer and read back by
\* the Integral reader of its type is the value written.
C7_IntegralRoundTrip ==
    codec.stage = "read" => codec.out = codec.v

C7_Witness ==
    /\ codec.stage = "read" /\ codec.T = IntType(EngineBits, FALSE, FALSE)
    /\ codec.v = Pow2(EngineBits) - 1 /\ frame[Len(frame)].i < 0
    /\ codec.out = codec.v

\* ---- C8 as stated: after pushFunction, looking the function's name up in
\* the engine yields the closure.
C8_InstalledUnderName ==
    \A k \in DOMAIN pushedBy :
        globals[registry[pushedBy[k]].m_name]
            = ClosureSlot(registry[pushedBy[k]].m_luaFunc, pushedBy[k])

\* ---- C8 as amended: pushFunction leaves exactly one new value on top of the
\* stack, the closure of the trampoline with the self-pointer as its single
\* upvalue, and installs nothing under any name.
C8_ClosureLeftOnStack ==
    /\ Len(stack) = pushes
    /\ \A k \in DOMAIN stack :
          stack[k] = ClosureSlot(registry[pushedBy[k]].m_luaFunc, pushedBy[k])
    /\ \A n \in Names : globals[n] = NilSlot

C8_Witness ==
    /\ pushes = 2 /\ pushedBy = <<1, 2>>
    /\ stack[2] = ClosureSlot(registry[2].m_luaFunc, 2)

\* ---- C9 as stated: a non-void function that reaches its callable reports
\* one result and leaves the entry contents with one value on top.
C9_OnePushOnEntryContents ==
    (pc = "done" /\ tramp.ret # "Void") =>
        /\ nresults = 1
        /\ Len(frame) = Len(entry) + 1
        /\ SubSeq(frame, 1, Len(entry)) = entry

\* ---- C9 as amended: a non-void function that reaches its callable pushes
\* exactly one value and reports one result; the slots below it are as on
\* entry, except that a number read by a StringView parameter has been
\* converted in place to its string.
C9_OnePushOneResult ==
    (pc = "done" /\ tramp.ret # "Void") =>
        /\ nresults = 1
        /\ Len(frame) = Len(entry) + nresults
        /\ \A k \in DOMAIN entry : SlotKept(k)

C9_Witness ==
    /\ pc = "done" /\ tramp.ret = "StringView" /\ nresults = 1
    /\ Len(entry) = 2 /\ frame[3] = StrSlot("sv")
    /\ frame[2] # entry[2]

\* ---- C10: the resolver selects the strategy of the leftmost recognized tag
\* of the list, and CopyReturn when there is none.
C10_FirstRecognizedTagWins ==
    resolver.stage = "resolved" =>
        LET q == resolver.policies
            known == {k \in DOMAIN q : q[k] \in {"ReturnCopy", "ReturnInternalRef"}}
            first == CHOOSE k \in known : \A l \in known : k <= l
        IN  resolver.type = IF known = {} THEN "CallReturnCopy"
                            ELSE IF q[first] = "ReturnCopy" THEN "CallReturnCopy"
                            ELSE "CallReturnInternalRef"

C10_Witness ==
    /\ resolver.stage = "resolved"
    /\ resolver.policies = <<"Other", "ReturnInternalRef", "ReturnCopy">>
    /\ resolver.type = "CallReturnInternalRef"

====
